---- MODULE Spec2Model ----
(***************************************************************************)
(* Model of the c2pa-js toolkit (packages/toolkit/src): the KeyVaultSigner *)
(* of authoring.rs, which implements c2pa::AsyncSigner over host           *)
(* callbacks, the RFC 3161 request builder, and the signAssetBuffer        *)
(* pipeline of lib.rs.                                                     *)
(*                                                                         *)
(* Conventions.  Option<T> is a sequence of length 0 (None) or 1 (Some).   *)
(* A JavaScript value is a record [t, bytes, n, der]: a byte buffer, a     *)
(* number, or undefined.  The DER encoding of a TimeStampReq is kept       *)
(* symbolic: a buffer whose der field holds the encoded request.           *)
(* A u64 is four 16-bit limbs, most significant first.                     *)
(***************************************************************************)
EXTENDS Integers, Sequences, FiniteSets, TLC

VARIABLES
    info,       \* the SigningInfo argument of signAssetBuffer
    buffer,     \* the buffer argument of signAssetBuffer
    opc,        \* position of sign_asset_buffer
    asset,      \* Option: the decoded asset bytes
    ai,         \* index of the next assertion key of the loop
    manifest,   \* Option: the Manifest under construction
    ingredient, \* Option: the Ingredient parsed from the asset
    signer,     \* Option: the KeyVaultSigner
    steps,      \* the collaborator calls sign_asset_buffer made, in order
    ret,        \* Option: what sign_asset_buffer returned to the host
    ops,        \* the signer operations the embedder started
    calls,      \* the host callbacks invoked and how they settled, in order
    plan,       \* how many signer operations the embedder starts in this run
    req_in,     \* Option: arguments of rfc3161_time_stamp_message
    req_out,    \* Option: its result
    got,        \* Option: the last alg(), certs() or reserve_size() and its value
    rd          \* Option: a getManifestStore... call and how far it is

vars == <<info, buffer, opc, asset, ai, manifest, ingredient, signer, steps,
          ret, ops, calls, plan, req_in, req_out, got, rd>>

-----------------------------------------------------------------------------
(* Bounds of the model *)

\* signer operations the embedder starts within one embed call
MaxCalls == 2
\* entries of the assertions mapping
MaxAssertions == 2

-----------------------------------------------------------------------------
(* Values *)

None == <<>>
Some(x) == <<x>>

Buf(b) == [t |-> "buffer", bytes |-> b, n |-> 0, der |-> <<>>]
Num(k) == [t |-> "number", bytes |-> <<>>, n |-> k, der |-> <<>>]
Undefined == [t |-> "undefined", bytes |-> <<>>, n |-> 0, der |-> <<>>]
\* a buffer holding the DER encoding of request r
DerBuf(r) == [t |-> "buffer", bytes |-> <<>>, n |-> 0, der |-> <<r>>]

Zeros(k) == [i \in 1..k |-> 0]

\* js_sys::Uint8Array::new(value).to_vec(): the JavaScript constructor
\* copies a buffer, makes a zero-filled array from a number, and an empty
\* array from undefined.
Uint8Array_new(v) ==
    CASE v.t = "buffer" -> IF v.der # <<>> THEN v.der ELSE v.bytes
      [] v.t = "number" -> Zeros(v.n)
      [] OTHER -> <<>>

RECURSIVE SumLen(_)
SumLen(cs) == IF cs = <<>> THEN 0 ELSE Len(Head(cs)) + SumLen(Tail(cs))

-----------------------------------------------------------------------------
(* authoring.rs: digest selection and the RFC 3161 request *)

SupportedAlgs == {"ps256", "es256", "ps384", "es384", "ps512", "es512", "ed25519"}

\* c2pa::SigningAlg::from_str as used by KeyVaultSigner::new
SigningAlg_from_str(s) ==
    IF s \in SupportedAlgs THEN [ok |-> TRUE, alg |-> s]
    ELSE [ok |-> FALSE, alg |-> s]

get_digest_algorithm_ed25519_sha256(alg) ==
    CASE alg \in {"es256", "ps256", "ed25519"} -> "Sha256"
      [] alg \in {"es384", "ps384"} -> "Sha384"
      [] alg \in {"es512", "ps512"} -> "Sha512"

get_digest_algorithm(alg) ==
    CASE alg \in {"es256", "ps256"} -> "Sha256"
      [] alg \in {"es384", "ps384"} -> "Sha384"
      [] alg \in {"es512", "ps512", "ed25519"} -> "Sha512"

\* u64::from_be_bytes: the first byte is the most significant
from_be_bytes(r) ==
    <<r[2] + 256 * r[1], r[4] + 256 * r[3], r[6] + 256 * r[5], r[8] + 256 * r[7]>>

\* u64::from_le_bytes: the first byte is the least significant
from_le_bytes(r) ==
    <<r[7] + 256 * r[8], r[5] + 256 * r[6], r[3] + 256 * r[4], r[1] + 256 * r[2]>>

rfc3161_time_stamp_message_hashing_random(alg, digest, random) ==
    [ok |-> TRUE,
     body |-> DerBuf([version |-> 1,
                      hash_algorithm |-> get_digest_algorithm(alg),
                      hashed_message |-> random,
                      req_policy |-> None,
                      nonce |-> Some(from_le_bytes(random)),
                      cert_req |-> Some(TRUE),
                      extensions |-> None])]

rfc3161_time_stamp_message(alg, digest, random) ==
    [ok |-> TRUE,
     body |-> DerBuf([version |-> 1,
                      hash_algorithm |-> get_digest_algorithm(alg),
                      hashed_message |-> digest,
                      req_policy |-> None,
                      nonce |-> Some(from_le_bytes(random)),
                      cert_req |-> Some(TRUE),
                      extensions |-> None])]

\* Vec<u8> -> [u8; 8]
try_into_8(v) == [ok |-> Len(v) = 8, val |-> v]

-----------------------------------------------------------------------------
(* authoring.rs: KeyVaultSigner *)

KeyVaultSigner_new_always_timestamp(timestamp, certs, alg) ==
    LET a == SigningAlg_from_str(alg) IN
    [panic |-> ~a.ok,
     signer |-> [timestamp |-> TRUE, alg |-> a.alg, certs |-> certs]]

KeyVaultSigner_new(timestamp, certs, alg) ==
    LET a == SigningAlg_from_str(alg) IN
    [panic |-> ~a.ok,
     signer |-> [timestamp |-> timestamp, alg |-> a.alg, certs |-> certs]]

reserve_size_by_count(s) == 8192 + Len(s.certs)

\* lines 110-112
reserve_size(s) == 8192 + SumLen(s.certs)

\* fn alg(&self), fn certs(&self)
alg_of(s) == s.alg
certs_of(s) == [ok |-> TRUE, val |-> s.certs]

\* The outcome of one host callback as async_callback_with_arg sees it:
\* future.await.unwrap() panics when the promise rejects, and a fulfilled
\* value is converted with Uint8Array::new(..).to_vec() and wrapped in Ok.
async_callback_with_arg(o) ==
    IF o.ev = "resolve"
    THEN [panic |-> FALSE, ok |-> TRUE, data |-> Uint8Array_new(o.val)]
    ELSE [panic |-> TRUE, ok |-> FALSE, data |-> <<>>]

-----------------------------------------------------------------------------
(* The host: what the callbacks may do *)

Payloads == {<<104, 105>>, <<120>>}
Random8 == <<1, 2, 3, 4, 5, 6, 7, 8>>
HostRandoms == {Random8, <<1, 2, 3>>, <<9, 8, 7, 6, 5, 4, 3, 2, 1>>}

RECURSIVE SumBytes(_)
SumBytes(b) == IF b = <<>> THEN 0 ELSE (Head(b) + SumBytes(Tail(b))) % 256
Reverse(b) == [i \in 1..Len(b) |-> b[Len(b) + 1 - i]]

\* what the host's functions compute when they succeed: a two-byte
\* checksum for digest, the reversed input for sign, a fixed token for the
\* timestamp authority
HostDigest(b) == <<SumBytes(b), Len(b)>>
HostSign(b) == Reverse(b)
HostTimestamp == <<48, 3>>

Resolve(v) == [ev |-> "resolve", val |-> v]
Reject == [ev |-> "reject", val |-> Undefined]

\* Settlements of the promise a callback returned for argument bytes b.
\* The callbacks are async functions (lib.rs lines 58-61): a call returns
\* a promise, which is fulfilled or rejected.  The random callback may also
\* fulfil with a value that is not a buffer.
DigestOutcomes(b) == {Resolve(Buf(HostDigest(b))), Reject}
SignOutcomes(b) == {Resolve(Buf(HostSign(b))), Reject}
TimestampOutcomes == {Resolve(Buf(HostTimestamp)), Reject}
RandomOutcomes == {Resolve(Buf(b)) : b \in HostRandoms} \cup {Resolve(Undefined), Reject}

Event(ev, id, cb, val) == [ev |-> ev, id |-> id, cb |-> cb, val |-> val]

\* func.call1(&this, arg): the callback runs now and returns a promise
Invoke(log, id, cb, arg) == log \o <<Event("call", id, cb, arg)>>

Settled(log, id, cb, o) == log \o <<Event(o.ev, id, cb, o.val)>>

NewOp(kind, data) ==
    [kind |-> kind, pc |-> "start", data |-> data, digest |-> <<>>,
     random |-> <<>>, body |-> <<>>, result |-> <<>>]

Embedding == opc = "embed"

sign_input_payload(data, digest) == data

\* a signer with one digest slot shared by its operations: the slot keeps
\* the first digest any of them obtained
sign_input_shared(data, digest) ==
    LET ds == SelectSeq(calls, LAMBDA e : e.ev = "resolve" /\ e.cb = "digest") IN
    IF ds = <<>> THEN digest ELSE ds[1].val.bytes

\* line 95: the sign callback receives the digest, not the payload
sign_input(data, digest) == digest

timestamp_target_sign == "sign"

\* lines 115 and 126: the request goes to the timestamp callback
timestamp_target == "timestamp"

Panicked(id) == [ops EXCEPT ![id].pc = "panicked"]

-----------------------------------------------------------------------------
(* authoring.rs: AsyncSigner::sign, one action per suspension point *)

\* a signer that remembers digests: a payload digested before goes to the
\* sign callback with the remembered digest
SignStart_cached(data) ==
    /\ Embedding
    /\ Len(ops) < plan
    /\ LET id == Len(ops) + 1
           seen == {j \in 1..Len(ops) : /\ ops[j].kind = "sign"
                                        /\ ops[j].data = data
                                        /\ ops[j].pc \in {"sign", "done"}} IN
       /\ IF seen = {}
          THEN /\ calls' = Invoke(calls, id, "digest", Buf(data))
               /\ ops' = Append(ops, [NewOp("sign", data) EXCEPT !.pc = "digest"])
          ELSE LET d == ops[CHOOSE j \in seen : TRUE].digest IN
               /\ calls' = Invoke(calls, id, "sign", Buf(d))
               /\ ops' = Append(ops, [NewOp("sign", data) EXCEPT
                                         !.pc = "sign", !.digest = d])
       /\ opc' = opc
    /\ UNCHANGED <<info, buffer, asset, ai, manifest, ingredient, signer,
                   steps, ret, plan, req_in, req_out,
                   got, rd>>

\* The embedder calls signer.sign(data): the digest callback is invoked
\* with a copy of data and the future suspends on its promise.
SignStart(data) ==
    /\ Embedding
    /\ Len(ops) < plan
    /\ LET id == Len(ops) + 1 IN
       /\ calls' = Invoke(calls, id, "digest", Buf(data))
       /\ ops' = Append(ops, [NewOp("sign", data) EXCEPT
                                 !.pc = "digest"])
       /\ opc' = opc
    /\ UNCHANGED <<info, buffer, asset, ai, manifest, ingredient, signer,
                   steps, ret, plan, req_in, req_out,
                   got, rd>>

\* The digest promise settles; `?` would return an Err, otherwise the sign
\* callback is invoked with the digest.
SignDigestSettled(id, o) ==
    /\ Embedding
    /\ id \in 1..Len(ops)
    /\ ops[id].kind = "sign" /\ ops[id].pc = "digest"
    /\ o \in DigestOutcomes(ops[id].data)
    /\ LET r == async_callback_with_arg(o)
           log == Settled(calls, id, "digest", o) IN
       IF r.panic
       THEN /\ calls' = log
            /\ ops' = Panicked(id)
            /\ opc' = "abort"
       ELSE IF ~r.ok
       THEN /\ calls' = log
            /\ ops' = [ops EXCEPT ![id].pc = "done",
                                  ![id].result = <<[ok |-> FALSE, data |-> <<>>]>>]
            /\ opc' = opc
       ELSE /\ calls' = Invoke(log, id, "sign", Buf(sign_input(ops[id].data, r.data)))
            /\ ops' = [ops EXCEPT ![id].digest = r.data,
                                  ![id].pc = "sign"]
            /\ opc' = opc
    /\ UNCHANGED <<info, buffer, asset, ai, manifest, ingredient, signer,
                   steps, ret, plan, req_in, req_out,
                   got, rd>>

\* The sign promise settles; the Result is unwrapped and returned as Ok.
SignSignSettled(id, o) ==
    /\ Embedding
    /\ id \in 1..Len(ops)
    /\ ops[id].kind = "sign" /\ ops[id].pc = "sign"
    /\ o \in SignOutcomes(ops[id].digest)
    /\ LET r == async_callback_with_arg(o) IN
       /\ calls' = Settled(calls, id, "sign", o)
       /\ IF r.panic \/ ~r.ok
          THEN /\ ops' = Panicked(id)
               /\ opc' = "abort"
          ELSE /\ ops' = [ops EXCEPT ![id].pc = "done",
                                     ![id].result = <<[ok |-> TRUE, data |-> r.data]>>]
               /\ opc' = opc
    /\ UNCHANGED <<info, buffer, asset, ai, manifest, ingredient, signer,
                   steps, ret, plan, req_in, req_out,
                   got, rd>>

-----------------------------------------------------------------------------
(* authoring.rs: AsyncSigner::send_timestamp_request *)

\* The embedder calls signer.send_timestamp_request(message).  Without a
\* timestamp callback the call returns None at once; with one, the digest
\* callback is invoked with a copy of the message.
TsStart(message) ==
    /\ Embedding
    /\ Len(ops) < plan
    /\ LET id == Len(ops) + 1 IN
       IF signer[1].timestamp
       THEN /\ calls' = Invoke(calls, id, "digest", Buf(message))
            /\ ops' = Append(ops, [NewOp("ts", message) EXCEPT
                                     !.pc = "digest"])
            /\ opc' = opc
       ELSE /\ calls' = calls
            /\ ops' = Append(ops, [NewOp("ts", message) EXCEPT !.pc = "done"])
            /\ opc' = opc
    /\ UNCHANGED <<info, buffer, asset, ai, manifest, ingredient, signer,
                   steps, ret, plan, req_in, req_out,
                   got, rd>>

\* The digest promise settles; .ok()? turns an Err into None; otherwise the
\* random callback is invoked with the number 8.
TsDigestSettled(id, o) ==
    /\ Embedding
    /\ id \in 1..Len(ops)
    /\ ops[id].kind = "ts" /\ ops[id].pc = "digest"
    /\ o \in DigestOutcomes(ops[id].data)
    /\ LET r == async_callback_with_arg(o)
           log == Settled(calls, id, "digest", o) IN
       IF r.panic
       THEN /\ calls' = log
            /\ ops' = Panicked(id)
            /\ opc' = "abort"
       ELSE IF ~r.ok
       THEN /\ calls' = log
            /\ ops' = [ops EXCEPT ![id].pc = "done"]
            /\ opc' = opc
       ELSE /\ calls' = Invoke(log, id, "random", Num(8))
            /\ ops' = [ops EXCEPT ![id].digest = r.data,
                                  ![id].pc = "random"]
            /\ opc' = opc
    /\ UNCHANGED <<info, buffer, asset, ai, manifest, ingredient, signer,
                   steps, ret, plan, req_in, req_out,
                   got, rd>>

\* The random promise settles; .ok()? turns an Err into None,
\* random.try_into().unwrap() panics unless there are exactly 8 bytes, the
\* request is built and the timestamp callback is invoked with it.
TsRandomSettled(id, o) ==
    /\ Embedding
    /\ id \in 1..Len(ops)
    /\ ops[id].kind = "ts" /\ ops[id].pc = "random"
    /\ o \in RandomOutcomes
    /\ LET r == async_callback_with_arg(o)
           log == Settled(calls, id, "random", o)
           arr == try_into_8(r.data)
           msg == rfc3161_time_stamp_message(signer[1].alg, ops[id].digest, arr.val) IN
       IF r.panic
       THEN /\ calls' = log
            /\ ops' = Panicked(id)
            /\ opc' = "abort"
       ELSE IF ~r.ok
       THEN /\ calls' = log
            /\ ops' = [ops EXCEPT ![id].pc = "done"]
            /\ opc' = opc
       ELSE IF ~arr.ok
       THEN /\ calls' = log
            /\ ops' = [Panicked(id) EXCEPT ![id].random = r.data]
            /\ opc' = "abort"
       ELSE IF ~msg.ok
       THEN /\ calls' = log
            /\ ops' = [ops EXCEPT ![id].random = r.data, ![id].pc = "done"]
            /\ opc' = opc
       ELSE /\ calls' = Invoke(log, id, timestamp_target, msg.body)
            /\ ops' = [ops EXCEPT ![id].random = r.data,
                                  ![id].body = <<msg.body>>,
                                  ![id].pc = "timestamp"]
            /\ opc' = opc
    /\ UNCHANGED <<info, buffer, asset, ai, manifest, ingredient, signer,
                   steps, ret, plan, req_in, req_out,
                   got, rd>>

\* The timestamp promise settles; the Result is returned inside Some.
TsTimestampSettled(id, o) ==
    /\ Embedding
    /\ id \in 1..Len(ops)
    /\ ops[id].kind = "ts" /\ ops[id].pc = "timestamp"
    /\ o \in TimestampOutcomes
    /\ LET r == async_callback_with_arg(o) IN
       /\ calls' = Settled(calls, id, timestamp_target, o)
       /\ IF r.panic
          THEN /\ ops' = Panicked(id)
               /\ opc' = "abort"
          ELSE /\ ops' = [ops EXCEPT ![id].pc = "done",
                                     ![id].result = <<[ok |-> r.ok, data |-> r.data]>>]
               /\ opc' = opc
    /\ UNCHANGED <<info, buffer, asset, ai, manifest, ingredient, signer,
                   steps, ret, plan, req_in, req_out,
                   got, rd>>

-----------------------------------------------------------------------------
(* lib.rs: errors *)

Err_SerdeInput == [kind |-> "SerdeInput", c2pa |-> "", url |-> ""]
Err_JavaScriptConversion == [kind |-> "JavaScriptConversion", c2pa |-> "", url |-> ""]
Err_C2pa(e, url) == [kind |-> "C2pa", c2pa |-> e, url |-> url]

as_js_error_without_url(err) ==
    [name |-> IF err.kind = "C2pa" THEN "C2pa(" \o err.c2pa \o ")" ELSE err.kind,
     url |-> None]

\* as_js_error: the name is the Debug form of the error; a remote manifest
\* URL gets its own name and a url property.
as_js_error(err) ==
    IF err.kind = "C2pa" /\ err.c2pa = "RemoteManifestUrl"
    THEN [name |-> "Toolkit(RemoteManifestUrl)", url |-> Some(err.url)]
    ELSE [name |-> IF err.kind = "C2pa" THEN "C2pa(" \o err.c2pa \o ")" ELSE err.kind,
          url |-> None]

ReturnErr(err) == Some([ok |-> FALSE, err |-> Some(as_js_error(err)), data |-> None])
ReturnOk(data) == Some([ok |-> TRUE, err |-> None, data |-> Some(data)])

-----------------------------------------------------------------------------
(* lib.rs: the inputs of signAssetBuffer *)

GENERATOR == "azure_media_provenance/0.1"
MimeType == "image/jpeg"

\* assets: a JPEG without a manifest, a JPEG carrying one, and bytes the
\* collaborator cannot parse
PlainAsset == <<255, 216>>
SignedAsset == <<255, 216, 67>>
BadAsset == <<0>>
Buffers == {Buf(PlainAsset), Buf(SignedAsset), Buf(BadAsset), Undefined}

\* a decoder that accepts every host value
from_value_lenient(v) == [ok |-> TRUE, val |-> v.bytes]

\* serde_wasm_bindgen::from_value::<ByteBuf>
from_value(v) == [ok |-> v.t = "buffer", val |-> v.bytes]

\* serde_json::from_str on the strings the model uses
ValidJson == "{\"a\":1}"
InvalidJson == "{"
serde_json_from_str(str) ==
    IF str = ValidJson THEN [ok |-> TRUE, val |-> [a |-> 1]]
    ELSE [ok |-> FALSE, val |-> [a |-> 0]]

\* JsValue::as_string
JsStr(str) == [str |-> TRUE, s |-> str]
JsNotStr == [str |-> FALSE, s |-> ""]
as_string(v) == IF v.str THEN Some(v.s) ELSE None

Labels == <<"c2pa.actions", "stds.exif", "stds.schema-org.CreativeWork">>
Keys == {JsStr(Labels[i]) : i \in 1..Len(Labels)} \cup {JsNotStr}
Values == {JsStr(ValidJson), JsStr(InvalidJson), JsNotStr}

\* a JavaScript Map in insertion order: its keys are distinct
AssertionMaps ==
    UNION {{m \in [1..k -> [key : Keys, value : Values]] :
              \A i, j \in 1..k : i # j => m[i].key # m[j].key} :
           k \in 0..MaxAssertions}

CertChains == {<<>>, <<Buf(<<48, 1>>), Buf(<<48, 2, 3>>)>>}
Thumbnails == {None, Some(<<7, 7>>)}
AlgStrings == SupportedAlgs \cup {"rsa1024", ""}

Infos ==
    [alg : AlgStrings,
     certificates : CertChains,
     assertions : {None} \cup {Some(m) : m \in AssertionMaps},
     thumbnail : Thumbnails,
     thumbnail_format : {"image/png"},
     timestamp : BOOLEAN]

\* Ingredient::from_memory_async of the collaborator, by asset
Ingredient_from_memory(format, bytes) ==
    IF bytes = BadAsset THEN [ok |-> FALSE, val |-> [format |-> format, manifest_data |-> None]]
    ELSE [ok |-> TRUE,
          val |-> [format |-> format,
                   manifest_data |-> IF bytes = SignedAsset THEN Some(bytes) ELSE None]]

Manifest_new(generator) ==
    [generator |-> generator, assertions |-> <<>>, thumbnail |-> None, parent |-> None]

keys_entry_reversed(m, i) == m[Len(m) + 1 - i]

\* line 197: Map.keys() yields the entries in insertion order
keys_entry(m, i) == m[i]

Step(s, arg) == [s |-> s, arg |-> arg]

-----------------------------------------------------------------------------
(* lib.rs: sign_asset_buffer, one action per statement that can return *)

SignerVars == <<ops, calls, plan>>
\* the variables of the calls made on their own
ReqVars == <<req_in, req_out, got, rd>>

Fail(err) ==
    /\ ret' = ReturnErr(err)
    /\ opc' = "error"

\* lines 189-194: decode the buffer, create the manifest
DecodeAsset ==
    /\ opc = "start"
    /\ LET a == from_value(buffer) IN
       IF ~a.ok
       THEN /\ Fail(Err_SerdeInput)
            /\ UNCHANGED <<asset, manifest>>
       ELSE /\ asset' = Some(a.val)
            /\ manifest' = Some(Manifest_new(GENERATOR))
            /\ opc' = IF info.assertions # None THEN "assertions" ELSE "thumbnail"
            /\ ret' = ret
    /\ UNCHANGED <<info, buffer, ai, ingredient, signer, steps, SignerVars, ReqVars>>

\* lines 197-204: one iteration of the loop over assertions.keys();
\* collab_ok is whether the collaborator accepts the assertion
AddAssertion(collab_ok) ==
    /\ opc = "assertions"
    /\ LET m == info.assertions[1] IN
       IF ai > Len(m)
       THEN /\ collab_ok
            /\ opc' = "thumbnail"
            /\ UNCHANGED <<ai, manifest, steps, ret>>
       ELSE LET key == as_string(keys_entry(m, ai).key)
                value == as_string(keys_entry(m, ai).value)
                json == serde_json_from_str(value[1]) IN
            IF key = None \/ value = None
            THEN /\ collab_ok
                 /\ Fail(Err_JavaScriptConversion)
                 /\ UNCHANGED <<ai, manifest, steps>>
            ELSE IF ~json.ok
            THEN /\ collab_ok
                 /\ Fail(Err_JavaScriptConversion)
                 /\ UNCHANGED <<ai, manifest, steps>>
            ELSE /\ steps' = Append(steps, Step("add_labeled_assertion", key[1]))
                 /\ IF collab_ok
                    THEN /\ manifest' = [manifest EXCEPT ![1].assertions =
                                           Append(@, [label |-> key[1], value |-> json.val])]
                         /\ ai' = ai + 1
                         /\ UNCHANGED <<opc, ret>>
                    ELSE /\ Fail(Err_JavaScriptConversion)
                         /\ UNCHANGED <<ai, manifest>>
    /\ UNCHANGED <<info, buffer, asset, ingredient, signer, SignerVars, ReqVars>>

\* lines 207-212
SetThumbnail(collab_ok) ==
    /\ opc = "thumbnail"
    /\ IF info.thumbnail = None
       THEN /\ collab_ok
            /\ opc' = "ingredient"
            /\ UNCHANGED <<manifest, steps, ret>>
       ELSE /\ steps' = Append(steps, Step("set_thumbnail", info.thumbnail_format))
            /\ IF collab_ok
               THEN /\ manifest' = [manifest EXCEPT ![1].thumbnail =
                                      Some([format |-> info.thumbnail_format,
                                            bytes |-> info.thumbnail[1]])]
                    /\ opc' = "ingredient"
                    /\ ret' = ret
               ELSE /\ Fail(Err_C2pa("OtherError", ""))
                    /\ manifest' = manifest
    /\ UNCHANGED <<info, buffer, asset, ai, ingredient, signer, SignerVars, ReqVars>>

\* line 214: Ingredient::from_memory_async is called and awaited
IngredientStart ==
    /\ opc = "ingredient"
    /\ opc' = "ingredient_wait"
    /\ steps' = Append(steps, Step("from_memory_async", MimeType))
    /\ UNCHANGED <<info, buffer, asset, ai, manifest, ingredient, signer, ret,
                   SignerVars, ReqVars>>

\* lines 215-217: the parse completes
IngredientDone ==
    /\ opc = "ingredient_wait"
    /\ LET r == Ingredient_from_memory(MimeType, asset[1]) IN
       /\ steps' = Append(steps, Step("ingredient_parsed", MimeType))
       /\ IF r.ok
          THEN /\ ingredient' = Some(r.val)
               /\ opc' = "parent"
               /\ ret' = ret
          ELSE /\ Fail(Err_C2pa("JumbfNotFound", ""))
               /\ ingredient' = ingredient
    /\ UNCHANGED <<info, buffer, asset, ai, manifest, signer, SignerVars, ReqVars>>

has_manifest_data_always(ing) == TRUE

\* line 218: source_ingredient.manifest_data().is_some()
has_manifest_data(ing) == ing.manifest_data # None

\* lines 218-223
SetParent(collab_ok) ==
    /\ opc = "parent"
    /\ IF has_manifest_data(ingredient[1])
       THEN /\ steps' = Append(steps, Step("set_parent", MimeType))
            /\ IF collab_ok
               THEN /\ manifest' = [manifest EXCEPT ![1].parent = ingredient]
                    /\ opc' = "signer"
                    /\ ret' = ret
               ELSE /\ Fail(Err_C2pa("OtherError", ""))
                    /\ manifest' = manifest
       ELSE /\ collab_ok
            /\ opc' = "signer"
            /\ UNCHANGED <<manifest, steps, ret>>
    /\ UNCHANGED <<info, buffer, asset, ai, ingredient, signer, SignerVars, ReqVars>>

\* lines 225-230: each certificate is copied out of the host array
project_certificates(cs) == [i \in 1..Len(cs) |-> Uint8Array_new(cs[i])]

\* lines 225-240: the signer is built; an alg that does not parse panics
NewSigner ==
    /\ opc = "signer"
    /\ LET s == KeyVaultSigner_new(info.timestamp,
                                   project_certificates(info.certificates),
                                   info.alg) IN
       IF s.panic
       THEN /\ opc' = "abort"
            /\ signer' = signer
       ELSE /\ opc' = "embed_call"
            /\ signer' = Some(s.signer)
    /\ UNCHANGED <<info, buffer, asset, ai, manifest, ingredient, steps, ret,
                   SignerVars, ReqVars>>

\* lines 241-242: embed_from_memory_async is called with the signer
EmbedStart ==
    /\ opc = "embed_call"
    /\ opc' = "embed"
    /\ steps' = Append(steps, Step("embed_from_memory_async", MimeType))
    /\ UNCHANGED <<info, buffer, asset, ai, manifest, ingredient, signer, ret,
                   SignerVars, ReqVars>>

AllReturned == \A id \in 1..Len(ops) : ops[id].pc = "done"
SomeSignature ==
    \E id \in 1..Len(ops) :
        ops[id].kind = "sign" /\ ops[id].pc = "done" /\ ops[id].result[1].ok

\* lines 243-248: the embed completes and its result goes to the host
EmbedDone(collab_ok) ==
    /\ opc = "embed"
    /\ AllReturned
    /\ steps' = Append(steps, Step("embedded", MimeType))
    /\ IF collab_ok
       THEN /\ SomeSignature
            /\ ret' = ReturnOk([asset |-> asset[1], manifest |-> manifest[1]])
            /\ opc' = "done"
       ELSE Fail(Err_C2pa("EmbeddingError", ""))
    /\ UNCHANGED <<info, buffer, asset, ai, manifest, ingredient, signer,
                   SignerVars, ReqVars>>

-----------------------------------------------------------------------------
(* The system *)

\* the inputs of a run that exercises the signer repeatedly, with and
\* without a timestamp callback
SignerInfos ==
    [alg : {"es256"},
     certificates : {<<Buf(<<48, 1>>), Buf(<<48, 2, 3>>)>>},
     assertions : {None},
     thumbnail : {None},
     thumbnail_format : {"image/png"},
     timestamp : BOOLEAN]

\* Every input with an embedder that uses the signer once, and the signer
\* inputs with an embedder that uses it MaxCalls times.
Init ==
    /\ \/ info \in Infos /\ buffer \in Buffers /\ plan = 1
       \/ info \in SignerInfos /\ buffer = Buf(PlainAsset) /\ plan = MaxCalls
    /\ opc = "start"
    /\ asset = None
    /\ ai = 1
    /\ manifest = None
    /\ ingredient = None
    /\ signer = None
    /\ steps = <<>>
    /\ ret = None
    /\ ops = <<>>
    /\ calls = <<>>
    /\ req_in = None
    /\ req_out = None
    /\ got = None
    /\ rd = None

CallbackSettlements ==
    UNION {DigestOutcomes(d) : d \in Payloads} \cup RandomOutcomes \cup TimestampOutcomes
    \cup UNION {SignOutcomes(HostDigest(d)) : d \in Payloads}

Next ==
    \/ DecodeAsset
    \/ \E c \in BOOLEAN : AddAssertion(c)
    \/ \E c \in BOOLEAN : SetThumbnail(c)
    \/ IngredientStart
    \/ IngredientDone
    \/ \E c \in BOOLEAN : SetParent(c)
    \/ NewSigner
    \/ EmbedStart
    \/ \E c \in BOOLEAN : EmbedDone(c)
    \/ \E d \in Payloads : SignStart(d)
    \/ \E id \in 1..Len(ops), o \in CallbackSettlements : SignDigestSettled(id, o)
    \/ \E id \in 1..Len(ops), o \in CallbackSettlements : SignSignSettled(id, o)
    \/ \E d \in Payloads : TsStart(d)
    \/ \E id \in 1..Len(ops), o \in CallbackSettlements : TsDigestSettled(id, o)
    \/ \E id \in 1..Len(ops), o \in CallbackSettlements : TsRandomSettled(id, o)
    \/ \E id \in 1..Len(ops), o \in CallbackSettlements : TsTimestampSettled(id, o)

Spec == Init /\ [][Next]_vars

-----------------------------------------------------------------------------
(* rfc3161_time_stamp_message on its own *)

ByteSeqs8 == [1..8 -> {0, 255}] \cup {Random8, <<128, 0, 0, 0, 0, 0, 0, 1>>}
ReqDigests == {<<>>, <<209, 2>>, Zeros(4)}
ReqInputs == [alg : SupportedAlgs, digest : ReqDigests, random : ByteSeqs8]

IdleInfo ==
    [alg |-> "es256", certificates |-> <<>>, assertions |-> None,
     thumbnail |-> None, thumbnail_format |-> "image/png", timestamp |-> TRUE]

InitReq ==
    /\ info = IdleInfo
    /\ buffer = Buf(PlainAsset)
    /\ plan = 0
    /\ opc = "start"
    /\ asset = None
    /\ ai = 1
    /\ manifest = None
    /\ ingredient = None
    /\ signer = None
    /\ steps = <<>>
    /\ ret = None
    /\ ops = <<>>
    /\ calls = <<>>
    /\ req_in \in {Some(x) : x \in ReqInputs}
    /\ req_out = None
    /\ got = None
    /\ rd = None

BuildRequest ==
    /\ req_out = None
    /\ req_out' = Some(rfc3161_time_stamp_message(req_in[1].alg, req_in[1].digest,
                                                   req_in[1].random))
    /\ UNCHANGED <<info, buffer, opc, asset, ai, manifest, ingredient, signer,
                   steps, ret, ops, calls, plan, req_in, got, rd>>

NextReq == BuildRequest

SpecReq == InitReq /\ [][NextReq]_vars

-----------------------------------------------------------------------------
(* Properties *)

\* the callback events of operation id, in order
CallsOf(id) == SelectSeq(calls, LAMBDA e : e.id = id)
EventsOf(id, ev, cb) == SelectSeq(calls, LAMBDA e : e.id = id /\ e.ev = ev /\ e.cb = cb)
Invoked(id, cb) == Len(EventsOf(id, "call", cb))
Rejected(id, cb) == EventsOf(id, "reject", cb) # <<>>
Resolved(id, cb) == EventsOf(id, "resolve", cb) # <<>>
OpIds(kind) == {id \in 1..Len(ops) : ops[id].kind = kind}
HasTimestampCallback == signer # None /\ signer[1].timestamp
ReturnedNone(id) == ops[id].pc = "done" /\ ops[id].result = None
ReturnedErr(id) == ops[id].pc = "done" /\ ops[id].result # None /\ ~ops[id].result[1].ok

\* C1: a sign(payload) whose two callbacks both resolve has invoked digest
\* once with the payload, then sign once with exactly the bytes digest
\* resolved with, and has returned exactly the bytes sign resolved with.
C1_SignDigestThenSign ==
    \A id \in OpIds("sign") :
        Resolved(id, "digest") /\ Resolved(id, "sign") =>
            LET es == CallsOf(id) IN
            /\ Len(es) = 4
            /\ es[1] = Event("call", id, "digest", Buf(ops[id].data))
            /\ es[2].ev = "resolve" /\ es[2].cb = "digest"
            /\ es[3] = Event("call", id, "sign", Buf(es[2].val.bytes))
            /\ es[4].ev = "resolve" /\ es[4].cb = "sign"
            /\ ops[id].pc = "done"
            /\ ops[id].result = <<[ok |-> TRUE, data |-> es[4].val.bytes]>>

\* sign(<<104, 105>>) has returned the reversed digest of its payload
C1_Witness ==
    \E id \in OpIds("sign") :
        /\ ops[id].data = <<104, 105>>
        /\ ops[id].pc = "done"
        /\ ops[id].result = <<[ok |-> TRUE, data |-> <<2, 209>>]>>

\* C2: on a signer built without a timestamp callback every
\* send_timestamp_request has returned None and has invoked no callback.
C2_NoTimestampCallbackIsAbsent ==
    \A id \in OpIds("ts") :
        ~info.timestamp => ReturnedNone(id) /\ CallsOf(id) = <<>>

\* send_timestamp_request returned None on such a signer after a sign
\* operation of the same signer did invoke callbacks
C2_Witness ==
    /\ ~info.timestamp
    /\ \E id \in OpIds("ts") : ReturnedNone(id)
    /\ calls # <<>>

\* C3 as claimed: when the random callback resolves with other than 8
\* bytes, send_timestamp_request returns None without aborting and without
\* invoking the timestamp callback.
C3_WrongLengthIsAbsent ==
    \A id \in OpIds("ts") :
        (/\ HasTimestampCallback
         /\ Resolved(id, "random")
         /\ Len(Uint8Array_new(EventsOf(id, "resolve", "random")[1].val)) # 8)
        => /\ ReturnedNone(id)
           /\ opc # "abort"
           /\ Invoked(id, "timestamp") = 0

\* C4 as claimed: when the digest or the random callback rejects,
\* send_timestamp_request returns None, the timestamp callback is not
\* invoked and the signing call is not aborted.
C4_PreRequestFailureIsAbsent ==
    \A id \in OpIds("ts") :
        HasTimestampCallback /\ (Rejected(id, "digest") \/ Rejected(id, "random"))
        => /\ ReturnedNone(id)
           /\ opc # "abort"
           /\ Invoked(id, "timestamp") = 0

\* C5 as claimed: once digest and random have succeeded, a failing
\* timestamp callback makes send_timestamp_request return Some(Err), and a
\* succeeding one Some(Ok(bytes)) with the bytes it resolved with.
C5_TimestampFailureIsSurfaced ==
    \A id \in OpIds("ts") :
        /\ Rejected(id, "timestamp") =>
              ReturnedErr(id) /\ opc # "abort"
        /\ Resolved(id, "timestamp") =>
              /\ ops[id].pc = "done"
              /\ ops[id].result =
                   <<[ok |-> TRUE,
                      data |-> EventsOf(id, "resolve", "timestamp")[1].val.bytes]>>

\* sign_asset_buffer has got as far as building the signer
ReachedSigner ==
    \/ opc \in {"abort", "embed_call", "embed", "done"}
    \/ \E i \in 1..Len(steps) : steps[i].s = "embed_from_memory_async"

\* C6 as claimed: with an alg that is not one of the seven names the call
\* ends with the error value UnsupportedAlgorithm and no callback invoked.
C6_UnsupportedAlgIsAnError ==
    info.alg \notin SupportedAlgs /\ ReachedSigner =>
        /\ ret # None
        /\ ~ret[1].ok
        /\ ret[1].err[1].name = "UnsupportedAlgorithm"
        /\ calls = <<>>

\* C7 as claimed: in sign a failing callback gives an error value: after
\* a failed digest the sign callback is not invoked, after a failed sign
\* callback sign returns an error and does not abort, and no callback is
\* invoked twice.
C7_SignFailureIsAnError ==
    \A id \in OpIds("sign") :
        /\ Rejected(id, "digest") => Invoked(id, "sign") = 0 /\ ReturnedErr(id)
        /\ Rejected(id, "sign") => ReturnedErr(id) /\ opc # "abort"
        /\ Invoked(id, "digest") <= 1 /\ Invoked(id, "sign") <= 1

Rank(s) ==
    CASE s = "add_labeled_assertion" -> 1
      [] s = "set_thumbnail" -> 2
      [] s = "from_memory_async" -> 3
      [] s = "ingredient_parsed" -> 4
      [] s = "set_parent" -> 5
      [] s = "embed_from_memory_async" -> 6
      [] s = "embedded" -> 7

StepsNamed(s) == SelectSeq(steps, LAMBDA e : e.s = s)
InputLabels == IF info.assertions = None THEN <<>>
               ELSE [i \in 1..Len(info.assertions[1]) |-> info.assertions[1][i].key.s]
IsPrefix(a, b) == Len(a) <= Len(b) /\ \A i \in 1..Len(a) : a[i] = b[i]

\* C8: the steps of one signAssetBuffer call come in a fixed order: the
\* assertions in the insertion order of the input mapping, then the
\* thumbnail, then the ingredient parse from start to completion, then the
\* embed call, which is made once; when the embed call is made every
\* assertion and the thumbnail (if given) have been set.
C8_PipelineOrder ==
    /\ \A i, j \in 1..Len(steps) : i < j => Rank(steps[i].s) <= Rank(steps[j].s)
    /\ \A i, j \in 1..Len(steps) :
          i < j /\ steps[i].s = steps[j].s => steps[i].s = "add_labeled_assertion"
    /\ IsPrefix([i \in 1..Len(StepsNamed("add_labeled_assertion")) |->
                    StepsNamed("add_labeled_assertion")[i].arg], InputLabels)
    /\ manifest # None =>
          IsPrefix([i \in 1..Len(manifest[1].assertions) |->
                       manifest[1].assertions[i].label], InputLabels)
    /\ opc \in {"embed", "done"} =>
          /\ Len(StepsNamed("embed_from_memory_async")) = 1
          /\ Len(StepsNamed("ingredient_parsed")) = 1
          /\ Len(manifest[1].assertions) = Len(InputLabels)
          /\ Len(StepsNamed("set_thumbnail")) = IF info.thumbnail = None THEN 0 ELSE 1
    /\ signer # None => Len(StepsNamed("ingredient_parsed")) = 1

\* a call with two assertions, a thumbnail and a parent has returned
C8_Witness ==
    /\ opc = "done"
    /\ Len(manifest[1].assertions) = 2
    /\ manifest[1].assertions[1].label = "stds.exif"
    /\ manifest[1].thumbnail # None
    /\ manifest[1].parent # None

\* C9: when the embedder is invoked the manifest has a parent exactly if
\* the parsed ingredient carries manifest data, and the parent is that
\* ingredient; an asset without a manifest gives no parent.
C9_ParentIffManifestData ==
    opc \in {"embed", "done"} =>
        /\ manifest[1].parent # None <=> ingredient[1].manifest_data # None
        /\ manifest[1].parent # None => manifest[1].parent = ingredient
        /\ asset[1] = PlainAsset => manifest[1].parent = None
        /\ asset[1] = SignedAsset => manifest[1].parent # None

\* the embedder runs on a manifest whose parent is the parsed ingredient
C9_Witness ==
    /\ opc = "embed"
    /\ asset[1] = SignedAsset
    /\ manifest[1].parent = ingredient
    /\ ingredient[1].manifest_data = Some(SignedAsset)

\* byte i (of weight 256^i) of a u64
ByteOf(u, i) ==
    LET limb == u[4 - (i \div 2)] IN
    IF i % 2 = 0 THEN limb % 256 ELSE limb \div 256

SpecDigestTable(alg) ==
    IF alg \in {"ps256", "es256"} THEN "Sha256"
    ELSE IF alg \in {"ps384", "es384"} THEN "Sha384"
    ELSE "Sha512"

\* C10: the request built from (alg, digest, r) has version 1, cert_req
\* TRUE, no req_policy, no extensions, the digest algorithm of alg, the
\* digest bytes as hashed_message, and as nonce the u64 whose byte of
\* weight 256^i is r[i]; for r = 01 .. 08 that is 0x0807060504030201.
C10_TimeStampReqFields ==
    req_out # None =>
        LET in == req_in[1]
            r == req_out[1].body.der[1] IN
        /\ req_out[1].ok
        /\ r.version = 1
        /\ r.cert_req = Some(TRUE)
        /\ r.req_policy = None
        /\ r.extensions = None
        /\ r.hash_algorithm = SpecDigestTable(in.alg)
        /\ r.hashed_message = in.digest
        /\ Len(r.nonce) = 1
        /\ \A i \in 0..7 : ByteOf(r.nonce[1], i) = in.random[i + 1]
        /\ in.random = Random8 => r.nonce[1] = <<2055, 1541, 1027, 513>>

\* the request of scenario S1 has been built
C10_Witness ==
    /\ req_out # None
    /\ req_in[1].alg = "es256"
    /\ req_in[1].random = Random8
    /\ req_in[1].digest = Zeros(4)
    /\ req_out[1].body.der[1].nonce = Some(<<2055, 1541, 1027, 513>>)

\* output length in bytes of a digest algorithm
DigestLen(h) == CASE h = "Sha256" -> 32 [] h = "Sha384" -> 48 [] h = "Sha512" -> 64

\* C11 as claimed: in every request send_timestamp_request builds, the
\* hashed_message is as long as the output of the digest algorithm chosen
\* from alg, whatever the digest callback returned.
C11_HashedMessageLength ==
    \A id \in OpIds("ts") :
        ops[id].body # <<>> =>
            LET r == ops[id].body[1].der[1] IN
            Len(r.hashed_message) = DigestLen(r.hash_algorithm)

\* sign_asset_buffer returned an error from inside the assertions loop;
\* the entry it failed on is the one at ai
FailedInLoop ==
    /\ opc = "error"
    /\ manifest # None
    /\ info.assertions # None
    /\ ai <= Len(info.assertions[1])

\* C12 as claimed: an assertion value that is not valid JSON fails the
\* call with the error kind AssertionParse, and an assertion the
\* collaborator rejects fails it with the kind ManifestAssertion.
C12_AssertionErrorKinds ==
    FailedInLoop =>
        LET e == keys_entry(info.assertions[1], ai) IN
        e.key.str /\ e.value.str =>
            IF serde_json_from_str(e.value.s).ok
            THEN ret[1].err[1].name = "ManifestAssertion"
            ELSE ret[1].err[1].name = "AssertionParse"

-----------------------------------------------------------------------------
(* lib.rs: getManifestStoreFromArrayBuffer and                             *)
(* getManifestStoreFromManifestAndAsset                                    *)

Urls == {"https://example.org/m.c2pa", "https://cdn.example.org/n.c2pa"}

\* manifest_store.rs: what get_manifest_store_data and
\* get_manifest_store_data_from_manifest_and_asset_bytes may give back: a
\* manifest store, or the collaborator's error, of which
\* RemoteManifestUrl(url) is one
get_manifest_store_data ==
    {[ok |-> TRUE, err |-> Err_C2pa("", "")]}
    \cup {[ok |-> FALSE, err |-> Err_C2pa("RemoteManifestUrl", u)] : u \in Urls}
    \cup {[ok |-> FALSE, err |-> Err_C2pa("BadParam", u)] : u \in Urls}
    \cup {[ok |-> FALSE, err |-> Err_C2pa("JumbfNotFound", "")]}

ReadCalls ==
    [op : {"array_buffer"}, manifest_buffer : {Undefined},
     asset_buffer : Buffers, mime_type : {"image/jpeg", "image/png"}]
    \cup
    [op : {"manifest_and_asset"}, manifest_buffer : {Buf(<<106, 117>>), Undefined},
     asset_buffer : Buffers, mime_type : {"image/jpeg", "image/png"}]

NewRead(c) ==
    [call |-> c, pc |-> "start", reported |-> None, result |-> None]

NotReadVars == <<info, buffer, opc, asset, ai, manifest, ingredient, signer,
                 steps, ret, ops, calls, plan, req_in, req_out, got>>

\* lib.rs 99-101 and 124-130: the buffers are decoded, the manifest first
ReadDecode ==
    /\ rd # None /\ rd[1].pc = "start"
    /\ LET c == rd[1].call
           decoded == /\ c.op = "manifest_and_asset" => from_value(c.manifest_buffer).ok
                      /\ from_value(c.asset_buffer).ok IN
       rd' = IF decoded
             THEN Some([rd[1] EXCEPT !.pc = "await"])
             ELSE Some([rd[1] EXCEPT !.pc = "done",
                                      !.result = ReturnErr(Err_SerdeInput)])
    /\ UNCHANGED NotReadVars

\* lib.rs 103-105 and 133-136: the collaborator's result arrives
ReadResult(r) ==
    /\ rd # None /\ rd[1].pc = "await"
    /\ r \in get_manifest_store_data
    /\ rd' = IF r.ok
             THEN Some([rd[1] EXCEPT !.pc = "serialize"])
             ELSE Some([rd[1] EXCEPT !.pc = "done",
                                      !.reported = Some(r.err),
                                      !.result = ReturnErr(r.err)])
    /\ UNCHANGED NotReadVars

\* lib.rs 107-114 and 138-145: the store is serialized for the host
ReadSerialize(ser_ok) ==
    /\ rd # None /\ rd[1].pc = "serialize"
    /\ rd' = IF ser_ok
             THEN Some([rd[1] EXCEPT !.pc = "done",
                          !.result = ReturnOk([asset |-> from_value(rd[1].call.asset_buffer).val,
                                               manifest |-> rd[1].call.mime_type])])
             ELSE Some([rd[1] EXCEPT !.pc = "done",
                          !.result = ReturnErr(Err_JavaScriptConversion)])
    /\ UNCHANGED NotReadVars

InitRead ==
    /\ info = IdleInfo
    /\ buffer = Buf(PlainAsset)
    /\ plan = 0
    /\ opc = "start"
    /\ asset = None
    /\ ai = 1
    /\ manifest = None
    /\ ingredient = None
    /\ signer = None
    /\ steps = <<>>
    /\ ret = None
    /\ ops = <<>>
    /\ calls = <<>>
    /\ req_in = None
    /\ req_out = None
    /\ got = None
    /\ rd \in {Some(NewRead(c)) : c \in ReadCalls}

NextRead ==
    \/ ReadDecode
    \/ \E r \in get_manifest_store_data : ReadResult(r)
    \/ \E b \in BOOLEAN : ReadSerialize(b)

SpecRead == InitRead /\ [][NextRead]_vars

\* C13: a read call that fails because the collaborator reports
\* RemoteManifestUrl(u) gives the host an error named as the
\* RemoteManifestUrl variant with url = u; every other error has no url.
C13_RemoteManifestUrlCarriesUrl ==
    rd # None /\ rd[1].result # None /\ ~rd[1].result[1].ok =>
        LET js == rd[1].result[1].err[1]
            remote == /\ rd[1].reported # None
                      /\ rd[1].reported[1].c2pa = "RemoteManifestUrl" IN
        IF remote
        THEN /\ js.name = "Toolkit(RemoteManifestUrl)"
             /\ js.url = Some(rd[1].reported[1].url)
        ELSE /\ js.url = None
             /\ js.name # "Toolkit(RemoteManifestUrl)"

\* the read of an asset whose manifest is at a remote URL has failed
C13_Witness ==
    /\ rd # None
    /\ rd[1].call.op = "array_buffer"
    /\ rd[1].pc = "done"
    /\ rd[1].reported = Some(Err_C2pa("RemoteManifestUrl", "https://example.org/m.c2pa"))
    /\ rd[1].result[1].err[1].url = Some("https://example.org/m.c2pa")

-----------------------------------------------------------------------------
(* authoring.rs: alg, certs and reserve_size, called by the embedder *)

Got(fn, a, c, n) == [fn |-> fn, alg |-> a, certs |-> c, size |-> n]

NotGetVars == <<info, buffer, opc, asset, ai, manifest, ingredient, signer,
                steps, ret, ops, calls, plan, req_in, req_out, rd>>

CallAlg ==
    /\ Embedding
    /\ got' = Some(Got("alg", alg_of(signer[1]), <<>>, 0))
    /\ UNCHANGED NotGetVars

CallCerts ==
    /\ Embedding
    /\ got' = Some(Got("certs", "", certs_of(signer[1]).val, 0))
    /\ UNCHANGED NotGetVars

CallReserveSize ==
    /\ Embedding
    /\ got' = Some(Got("reserve_size", "", <<>>, reserve_size(signer[1])))
    /\ UNCHANGED NotGetVars

\* certificate chains: none, one, two, and the two of 1200 and 1400 bytes
GetChains ==
    {<<>>, <<Buf(<<48, 1>>)>>, <<Buf(<<48, 1>>), Buf(<<48, 2, 3>>)>>,
     <<Buf(Zeros(1200)), Buf(Zeros(1400))>>}

GetInfos ==
    [alg : SupportedAlgs,
     certificates : GetChains,
     assertions : {None, Some(<<[key |-> JsStr(Labels[1]), value |-> JsStr(ValidJson)]>>)},
     thumbnail : {None},
     thumbnail_format : {"image/png"},
     timestamp : BOOLEAN]

InitGet ==
    /\ info \in GetInfos
    /\ buffer = Buf(PlainAsset)
    /\ plan = 1
    /\ opc = "start"
    /\ asset = None
    /\ ai = 1
    /\ manifest = None
    /\ ingredient = None
    /\ signer = None
    /\ steps = <<>>
    /\ ret = None
    /\ ops = <<>>
    /\ calls = <<>>
    /\ req_in = None
    /\ req_out = None
    /\ got = None
    /\ rd = None

NextGet ==
    \/ Next
    \/ CallAlg
    \/ CallCerts
    \/ CallReserveSize

SpecGet == InitGet /\ [][NextGet]_vars

RECURSIVE TotalBytes(_)
TotalBytes(cs) == IF cs = <<>> THEN 0 ELSE Len(Head(cs).bytes) + TotalBytes(Tail(cs))

\* C14: reserve_size() is 8192 plus the byte lengths of all certificates
\* of the chain the host supplied: 8192 for the empty chain and 10792 for
\* certificates of 1200 and 1400 bytes.
C14_ReserveSize ==
    got # None /\ got[1].fn = "reserve_size" =>
        /\ got[1].size = 8192 + TotalBytes(info.certificates)
        /\ info.certificates = <<>> => got[1].size = 8192
        /\ info.certificates = <<Buf(Zeros(1200)), Buf(Zeros(1400))>> =>
              got[1].size = 10792

\* reserve_size() was called on the chain of 1200 and 1400 bytes
C14_Witness ==
    /\ got # None
    /\ got[1].fn = "reserve_size"
    /\ Len(info.certificates) = 2
    /\ Len(info.certificates[1].bytes) = 1200
    /\ Len(info.certificates[2].bytes) = 1400
    /\ got[1].size = 10792

\* C15: the digest selector gives Sha256 for PS256 and ES256, Sha384 for
\* PS384 and ES384, Sha512 for PS512, ES512 and ED25519, and a digest
\* algorithm for each of the seven.
C15_DigestSelector ==
    req_out # None =>
        LET a == req_in[1].alg
            h == req_out[1].body.der[1].hash_algorithm IN
        /\ a \in SupportedAlgs
        /\ h \in {"Sha256", "Sha384", "Sha512"}
        /\ h = "Sha256" <=> a \in {"ps256", "es256"}
        /\ h = "Sha384" <=> a \in {"ps384", "es384"}
        /\ h = "Sha512" <=> a \in {"ps512", "es512", "ed25519"}

\* requests have been built for an ED25519 signer with Sha512
C15_Witness ==
    /\ req_out # None
    /\ req_in[1].alg = "ed25519"
    /\ req_out[1].body.der[1].hash_algorithm = "Sha512"

\* the little-endian u64 of 8 bytes, limb by limb
LimbsLE(r) == [k \in 1..4 |-> r[9 - 2 * k] + 256 * r[10 - 2 * k]]

\* the request body for signing algorithm a, digest bytes d, random bytes r
ExpectedBody(a, d, r) ==
    DerBuf([version |-> 1,
            hash_algorithm |-> SpecDigestTable(a),
            hashed_message |-> d,
            req_policy |-> None,
            nonce |-> Some(LimbsLE(r)),
            cert_req |-> Some(TRUE),
            extensions |-> None])

\* C16: a send_timestamp_request(m) whose callbacks all resolve has
\* invoked exactly digest with m, then random with 8, then timestamp with
\* the request built from alg, the digest's bytes and the 8 random bytes,
\* each once; timestamp is never invoked before digest and random resolved.
C16_TimestampCallbackOrder ==
    \A id \in OpIds("ts") :
        LET es == CallsOf(id) IN
        /\ \A i \in 1..Len(es) :
              es[i].ev = "call" /\ es[i].cb = "timestamp" =>
                  \E j, k \in 1..(i - 1) :
                      /\ j < k
                      /\ es[j].ev = "resolve" /\ es[j].cb = "digest"
                      /\ es[k].ev = "resolve" /\ es[k].cb = "random"
        /\ Resolved(id, "timestamp") =>
              /\ Len(es) = 6
              /\ es[1] = Event("call", id, "digest", Buf(ops[id].data))
              /\ es[2].ev = "resolve" /\ es[2].cb = "digest"
              /\ es[3] = Event("call", id, "random", Num(8))
              /\ es[4].ev = "resolve" /\ es[4].cb = "random"
              /\ es[5] = Event("call", id, "timestamp",
                               ExpectedBody(info.alg, es[2].val.bytes, es[4].val.bytes))
              /\ es[6].ev = "resolve" /\ es[6].cb = "timestamp"

\* send_timestamp_request(<<104, 105>>) has returned the authority's answer
C16_Witness ==
    \E id \in OpIds("ts") :
        /\ ops[id].data = <<104, 105>>
        /\ ops[id].pc = "done"
        /\ ops[id].result = <<[ok |-> TRUE, data |-> HostTimestamp]>>
        /\ Len(CallsOf(id)) = 6

\* C17: the signer keeps nothing between calls: every sign invocation,
\* also one repeating an earlier payload, has invoked the digest callback
\* once with its own payload, and the signer's alg and certificates stay
\* what they were built from.
C17_SignerIsStateless ==
    /\ \A id \in OpIds("sign") :
          /\ Invoked(id, "digest") = 1
          /\ CallsOf(id)[1] = Event("call", id, "digest", Buf(ops[id].data))
    /\ signer # None =>
          /\ signer[1].alg = info.alg
          /\ signer[1].timestamp = info.timestamp
          /\ signer[1].certs = [i \in 1..Len(info.certificates) |->
                                   info.certificates[i].bytes]

\* sign has returned twice for the same payload on one signer
C17_Witness ==
    \E i, j \in OpIds("sign") :
        /\ i < j
        /\ ops[i].data = ops[j].data
        /\ ops[i].pc = "done" /\ ops[j].pc = "done"
        /\ \E k \in 1..Len(calls) :
              /\ calls[k] = Event("call", j, "digest", Buf(ops[j].data))
              /\ \E l \in 1..(k - 1) : calls[l].id = i /\ calls[l].ev = "resolve"
                                        /\ calls[l].cb = "sign"

\* C18: however sign(p) and send_timestamp_request(m) interleave, each
\* passes its callbacks what it would pass when run alone and returns what
\* it would return alone: sign hands the digest of p to the sign callback
\* and returns its answer, the request is built from the digest of m.
C18_InterleavingIndependent ==
    /\ \A id \in OpIds("sign") :
          LET p == ops[id].data IN
          /\ \A i \in 1..Len(calls) :
                calls[i].id = id /\ calls[i].ev = "call" =>
                    \/ calls[i].cb = "digest" /\ calls[i].val = Buf(p)
                    \/ calls[i].cb = "sign" /\ calls[i].val = Buf(HostDigest(p))
          /\ ops[id].pc = "done" =>
                ops[id].result = <<[ok |-> TRUE, data |-> HostSign(HostDigest(p))]>>
    /\ \A id \in OpIds("ts") :
          LET m == ops[id].data IN
          /\ \A i \in 1..Len(calls) :
                calls[i].id = id /\ calls[i].ev = "call" =>
                    \/ calls[i].cb = "digest" /\ calls[i].val = Buf(m)
                    \/ calls[i].cb = "random" /\ calls[i].val = Num(8)
                    \/ /\ calls[i].cb = "timestamp"
                       /\ calls[i].val.der[1].hashed_message = HostDigest(m)
                       /\ calls[i].val.der[1].hash_algorithm = SpecDigestTable(info.alg)
          /\ ops[id].pc = "done" /\ info.timestamp =>
                ops[id].result = <<[ok |-> TRUE, data |-> HostTimestamp]>>

\* a sign(p) and a send_timestamp_request(m), m # p, have both returned
\* after their callbacks alternated
C18_Witness ==
    \E i \in OpIds("sign"), j \in OpIds("ts") :
        /\ ops[i].data # ops[j].data
        /\ ops[i].pc = "done" /\ ops[j].pc = "done"
        /\ ops[j].result # None
        /\ \E a, b, c, d \in 1..Len(calls) :
              /\ a < b /\ b < c /\ c < d
              /\ calls[a].id = j /\ calls[a].ev = "resolve" /\ calls[a].cb = "digest"
              /\ calls[b].id = i /\ calls[b].ev = "resolve" /\ calls[b].cb = "digest"
              /\ calls[c].id = j /\ calls[c].ev = "resolve" /\ calls[c].cb = "random"
              /\ calls[d].id = i /\ calls[d].ev = "resolve" /\ calls[d].cb = "sign"

\* the call has returned an error and the embedder was never called
PreEmbedFailure ==
    opc = "error" /\ StepsNamed("embed_from_memory_async") = <<>>

\* the input makes a step before the embedding fail, and the call has got
\* as far as that step
DoomedInput ==
    \/ buffer.t # "buffer" /\ opc # "start"
    \/ /\ info.assertions # None
       /\ opc \notin {"start", "assertions"}
       /\ \E i \in 1..Len(info.assertions[1]) :
             LET e == keys_entry(info.assertions[1], i) IN
             \/ ~e.key.str
             \/ ~e.value.str
             \/ ~serde_json_from_str(e.value.s).ok
    \/ buffer = Buf(BadAsset) /\ StepsNamed("ingredient_parsed") # <<>>

\* C19: when a step of signAssetBuffer before the embedding fails (buffer
\* decoding, an assertion key or value, its JSON, adding it, the
\* thumbnail, the ingredient, the parent) the call returns an error, no
\* signer is constructed, the embedder is not called and no callback is
\* invoked.
C19_PreEmbedFailureTouchesNothing ==
    /\ DoomedInput => PreEmbedFailure
    /\ PreEmbedFailure =>
          /\ ret # None /\ ~ret[1].ok /\ ret[1].err # None
          /\ signer = None
          /\ StepsNamed("embedded") = <<>>
          /\ ops = <<>>
          /\ calls = <<>>

\* the last step before the embedding, set_parent, has failed
C19_Witness ==
    /\ PreEmbedFailure
    /\ StepsNamed("set_parent") # <<>>
    /\ ret[1].err[1].name = "C2pa(OtherError)"

\* every callback in the log belongs to the operation that invoked it
OwnCallbacksOnly ==
    \A i \in 1..Len(calls) :
        /\ ops[calls[i].id].kind = "ts" => calls[i].cb # "sign"
        /\ ops[calls[i].id].kind = "sign" => calls[i].cb \notin {"random", "timestamp"}

\* C20: send_timestamp_request never invokes the sign callback, sign never
\* invokes the random or the timestamp callback, and a call of alg, certs
\* or reserve_size leaves the callback log and the operations as they are.
C20_OwnCallbacksOnly ==
    [][/\ OwnCallbacksOnly'
       /\ got' # got => calls' = calls /\ ops' = ops]_vars

\* a getter has answered and a send_timestamp_request has run through its
\* three callbacks
C20_Witness ==
    /\ got # None
    /\ \E id \in OpIds("ts") :
          /\ ops[id].pc = "done"
          /\ Invoked(id, "digest") = 1
          /\ Invoked(id, "random") = 1
          /\ Invoked(id, "timestamp") = 1

====
